---- MODULE Spec2Model ----
(***************************************************************************)
(* Model of the two simpleperf-to-folded-stack converters:                 *)
(*   src/resolve_and_fold.py              (program "v2")                   *)
(*   src/convert_simpleperf_to_folded.py  (program "convert")              *)
(*                                                                         *)
(* An input file is a sequence of lines.  A line is modelled by what the   *)
(* code can see of it: the prefix it starts with after strip() (k),        *)
(* whether it has leading whitespace (ind), whether the handler's regular  *)
(* expression matches (m) and the value the match extracts: n for the      *)
(* digits of event_count, s for a symbol / address / thread name after     *)
(* strip(), f for an image path after strip().  Image paths are sequences  *)
(* of characters, so that startswith('/'), 'lib' in f and                  *)
(* os.path.basename are computed rather than assumed.                      *)
(***************************************************************************)
EXTENDS Integers, Sequences, FiniteSets, TLC

VARIABLES prog, input, pos, pc, v2, cv, store, symbolizer,
          to_resolve, ri, resolved_cache, invocations,
          fi, folded, out

vars == <<prog, input, pos, pc, v2, cv, store, symbolizer,
          to_resolve, ri, resolved_cache, invocations, fi, folded, out>>

(***************************************************************************)
(* Bounds of the model.                                                    *)
(***************************************************************************)
MaxLines == 3

MaxRecords == 3

MaxStdout == 4

MaxResolverRecords == 2

MaxImageRecords == 2

(***************************************************************************)
(* Character sequences.                                                    *)
(***************************************************************************)
RECURSIVE Str(_)
Str(cs) == IF cs = <<>> THEN "" ELSE cs[1] \o Str(Tail(cs))

RECURSIVE Reverse(_)
Reverse(s) == IF s = <<>> THEN <<>> ELSE Append(Reverse(Tail(s)), s[1])

StartsWithSlash(p) == Len(p) >= 1 /\ p[1] = "/"

ContainsLib(p) ==
  \E i \in 1..Len(p) :
    i + 2 <= Len(p) /\ p[i] = "l" /\ p[i + 1] = "i" /\ p[i + 2] = "b"

LastSlash(p) ==
  IF \E i \in 1..Len(p) : p[i] = "/"
    THEN CHOOSE i \in 1..Len(p) :
           p[i] = "/" /\ \A j \in (i + 1)..Len(p) : p[j] # "/"
    ELSE 0

Basename(p) == SubSeq(p, LastSlash(p) + 1, Len(p))

LibFoo == <<"/", "l", "i", "b", "/", "l", "i", "b", "f", "o", "o", ".", "s", "o">>

LibBar == <<"/", "l", "i", "b", "/", "l", "i", "b", "b", "a", "r", ".", "s", "o">>

BinApp == <<"/", "b", "i", "n", "/", "a", "p", "p">>

(***************************************************************************)
(* Lines.                                                                  *)
(***************************************************************************)
Line(k, ind, m, n, s, f) ==
  [k |-> k, ind |-> ind, m |-> m, n |-> n, s |-> s, f |-> f]

LSample == Line("sample", FALSE, TRUE, 0, "", <<>>)

LSampleInd == Line("sample", TRUE, TRUE, 0, "", <<>>)

LCount(n) == Line("event_count", TRUE, TRUE, n, "", <<>>)

LCountBad == Line("event_count", TRUE, FALSE, 0, "", <<>>)

LThread(t) == Line("thread_name", TRUE, TRUE, 0, t, <<>>)

LChain == Line("callchain", TRUE, TRUE, 0, "", <<>>)

LVaddr(v) == Line("vaddr_in_file", TRUE, TRUE, 0, v, <<>>)

LVaddrBad == Line("vaddr_in_file", TRUE, FALSE, 0, "", <<>>)

LFile(p) == Line("file", TRUE, TRUE, 0, "", p)

LSym(s) == Line("symbol", TRUE, TRUE, 0, s, <<>>)

LSymBare == Line("symbol", TRUE, FALSE, 0, "", <<>>)

LOther == Line("other", FALSE, FALSE, 0, "", <<>>)

(***************************************************************************)
(* resolve_and_fold.py: parse_simpleperf_output_v2.                        *)
(* A frame is the dict current_frame: hs/hf/hv say which keys it has.      *)
(* current_sample is {} (hasCount FALSE) or {'count': n}.                  *)
(***************************************************************************)
EmptyFrame ==
  [hs |-> FALSE, symbol |-> "", hf |-> FALSE, file |-> <<>>,
   hv |-> FALSE, vaddr |-> ""]

FrameTruthy(fr) == fr.hs \/ fr.hf \/ fr.hv

EmptySample == [hasCount |-> FALSE, count |-> 0]

GetCount(cs) == IF cs.hasCount THEN cs.count ELSE 1

V2Start ==
  [samples |-> <<>>, current_sample |-> EmptySample, current_stack |-> <<>>,
   current_frame |-> EmptyFrame, in_callchain |-> FALSE]

V2Kind(l) ==
  IF l.k = "sample" THEN (IF l.ind THEN "other" ELSE "sample")
  ELSE IF l.k = "thread_name" THEN "other"
  ELSE l.k

V2MarkerStack(st) ==
  IF st.current_stack = <<>> /\ FrameTruthy(st.current_frame)
    THEN <<st.current_frame>>
    ELSE st.current_stack

V2EofStack(st) ==
  IF FrameTruthy(st.current_frame)
    THEN Append(st.current_stack, st.current_frame)
    ELSE st.current_stack

V2Save(st, stack) ==
  IF st.current_sample.hasCount /\ stack # <<>>
    THEN Append(st.samples,
                [count |-> GetCount(st.current_sample), stack |-> Reverse(stack)])
    ELSE st.samples

(* Variant: the reset keeps the previous record's weight. *)
V2OnSampleKeepCount(st) ==
  [samples |-> V2Save(st, V2MarkerStack(st)),
   current_sample |-> [hasCount |-> TRUE, count |-> GetCount(st.current_sample)],
   current_stack |-> <<>>,
   current_frame |-> EmptyFrame,
   in_callchain |-> FALSE]

V2OnSample(st) ==
  [samples |-> V2Save(st, V2MarkerStack(st)),
   current_sample |-> [hasCount |-> TRUE, count |-> 1],
   current_stack |-> <<>>,
   current_frame |-> EmptyFrame,
   in_callchain |-> FALSE]

V2OnEventCount(st, l) ==
  IF l.m
    THEN [st EXCEPT !.current_sample = [hasCount |-> TRUE, count |-> l.n]]
    ELSE st

V2OnCallchain(st) ==
  IF FrameTruthy(st.current_frame)
    THEN [st EXCEPT !.in_callchain = TRUE,
                    !.current_stack = Append(st.current_stack, st.current_frame),
                    !.current_frame = EmptyFrame]
    ELSE [st EXCEPT !.in_callchain = TRUE]

V2OnVaddr(st, l) ==
  LET pushed == IF st.current_frame.hv
                  THEN [st EXCEPT !.current_stack =
                                     Append(st.current_stack, st.current_frame),
                                  !.current_frame = EmptyFrame]
                  ELSE st
  IN IF l.m
       THEN [pushed EXCEPT !.current_frame.hv = TRUE, !.current_frame.vaddr = l.s]
       ELSE pushed

V2OnFile(st, l) ==
  IF l.m
    THEN [st EXCEPT !.current_frame.hf = TRUE, !.current_frame.file = l.f]
    ELSE st

V2OnSymbol(st, l) ==
  IF l.m
    THEN [st EXCEPT !.current_frame.hs = TRUE, !.current_frame.symbol = l.s]
    ELSE st

V2OnEof(st) == [st EXCEPT !.samples = V2Save(st, V2EofStack(st))]

V2Step(st, l) ==
  CASE V2Kind(l) = "sample" -> V2OnSample(st)
    [] V2Kind(l) = "event_count" -> V2OnEventCount(st, l)
    [] V2Kind(l) = "callchain" -> V2OnCallchain(st)
    [] V2Kind(l) = "vaddr_in_file" -> V2OnVaddr(st, l)
    [] V2Kind(l) = "file" -> V2OnFile(st, l)
    [] V2Kind(l) = "symbol" -> V2OnSymbol(st, l)
    [] OTHER -> st

RECURSIVE V2Run(_, _)
V2Run(st, lines) ==
  IF lines = <<>> THEN st ELSE V2Run(V2Step(st, lines[1]), Tail(lines))

parse_simpleperf_output_v2(lines) == V2OnEof(V2Run(V2Start, lines)).samples

(***************************************************************************)
(* convert_simpleperf_to_folded.py: parse_simpleperf_output.               *)
(* current_sample is None (none TRUE) or a dict with the keys 'count',     *)
(* 'thread' and 'main_symbol' that the has* flags name.  A handler that    *)
(* subscripts or calls .get on None raises: raised becomes TRUE.           *)
(***************************************************************************)
NoneSample ==
  [none |-> TRUE, hasCount |-> FALSE, count |-> 0, hasThread |-> FALSE,
   thread |-> "", hasMain |-> FALSE, main_symbol |-> ""]

EmptyDict == [NoneSample EXCEPT !.none = FALSE]

DictTruthy(cs) == ~cs.none /\ (cs.hasCount \/ cs.hasThread \/ cs.hasMain)

MainTruthy(cs) == cs.hasMain /\ cs.main_symbol # ""

CvStart ==
  [samples |-> <<>>, current_sample |-> NoneSample, callchain |-> <<>>,
   in_callchain |-> FALSE, raised |-> FALSE]

CvKind(l) ==
  IF l.k = "sample" THEN (IF l.ind THEN "other" ELSE "sample")
  ELSE IF l.k \in {"vaddr_in_file", "file"} THEN "other"
  ELSE l.k

CvStack(st) ==
  IF st.callchain = <<>> /\ MainTruthy(st.current_sample)
    THEN <<st.current_sample.main_symbol>>
    ELSE st.callchain

CvSave(st) ==
  IF DictTruthy(st.current_sample) /\ CvStack(st) # <<>>
    THEN Append(st.samples,
                [sample |-> st.current_sample, stack |-> Reverse(CvStack(st))])
    ELSE st.samples

CvOnSample(st) ==
  [samples |-> CvSave(st), current_sample |-> EmptyDict, callchain |-> <<>>,
   in_callchain |-> FALSE, raised |-> st.raised]

CvOnEventCount(st, l) ==
  IF ~l.m THEN st
  ELSE IF st.current_sample.none THEN [st EXCEPT !.raised = TRUE]
  ELSE [st EXCEPT !.current_sample.hasCount = TRUE, !.current_sample.count = l.n]

CvOnThread(st, l) ==
  IF ~l.m THEN st
  ELSE IF st.current_sample.none THEN [st EXCEPT !.raised = TRUE]
  ELSE [st EXCEPT !.current_sample.hasThread = TRUE, !.current_sample.thread = l.s]

CvOnCallchain(st) == [st EXCEPT !.in_callchain = TRUE]

CvOnSymbol(st, l) ==
  IF ~l.m THEN st
  ELSE IF st.in_callchain THEN [st EXCEPT !.callchain = Append(st.callchain, l.s)]
  ELSE IF st.current_sample.none THEN [st EXCEPT !.raised = TRUE]
  ELSE IF ~MainTruthy(st.current_sample)
    THEN [st EXCEPT !.current_sample.hasMain = TRUE,
                    !.current_sample.main_symbol = l.s]
  ELSE st

CvOnEof(st) == [st EXCEPT !.samples = CvSave(st)]

CvStep(st, l) ==
  CASE CvKind(l) = "sample" -> CvOnSample(st)
    [] CvKind(l) = "event_count" -> CvOnEventCount(st, l)
    [] CvKind(l) = "thread_name" -> CvOnThread(st, l)
    [] CvKind(l) = "callchain" -> CvOnCallchain(st)
    [] CvKind(l) = "symbol" -> CvOnSymbol(st, l)
    [] OTHER -> st

(* The loop stops at the first handler that raises. *)
RECURSIVE CvRun(_, _)
CvRun(st, lines) ==
  IF lines = <<>> \/ st.raised THEN st ELSE CvRun(CvStep(st, lines[1]), Tail(lines))

parse_simpleperf_output(lines) ==
  IF CvRun(CvStart, lines).raised
    THEN CvRun(CvStart, lines)
    ELSE CvOnEof(CvRun(CvStart, lines))

(***************************************************************************)
(* Folded stacks.  A dict is a sequence of entries in insertion order.     *)
(***************************************************************************)
RECURSIVE JoinSemi(_)
JoinSemi(labels) ==
  IF Len(labels) = 1 THEN labels[1]
  ELSE labels[1] \o ";" \o JoinSemi(Tail(labels))

HasKey(fd, key) == \E i \in 1..Len(fd) : fd[i].stack = key

(* Variant: a repeated key overwrites the count instead of adding to it. *)
AccumulateOverwrite(fd, key, count) ==
  IF HasKey(fd, key)
    THEN [i \in 1..Len(fd) |->
            IF fd[i].stack = key THEN [stack |-> key, count |-> count] ELSE fd[i]]
    ELSE Append(fd, [stack |-> key, count |-> count])

Accumulate(fd, key, count) ==
  IF HasKey(fd, key)
    THEN [i \in 1..Len(fd) |->
            IF fd[i].stack = key
              THEN [stack |-> key, count |-> fd[i].count + count]
              ELSE fd[i]]
    ELSE Append(fd, [stack |-> key, count |-> count])

(* convert_simpleperf_to_folded.py: convert_to_folded, one loop iteration. *)
FullStack(smp) ==
  IF smp.sample.hasMain /\ smp.stack[Len(smp.stack)] # smp.sample.main_symbol
    THEN Append(smp.stack, smp.sample.main_symbol)
    ELSE smp.stack

CvCount(smp) == IF smp.sample.hasCount THEN smp.sample.count ELSE 1

CvFoldSample(fd, smp) ==
  IF smp.stack = <<>> THEN fd
  ELSE Accumulate(fd, JoinSemi(FullStack(smp)), CvCount(smp))

RECURSIVE convert_to_folded(_, _)
convert_to_folded(fd, smps) ==
  IF smps = <<>> THEN fd
  ELSE convert_to_folded(CvFoldSample(fd, smps[1]), Tail(smps))

(* resolve_and_fold.py: the fold loop of main, one loop iteration.         *)
InCache(cache, fr) == fr.hf /\ fr.hv /\ <<fr.file, fr.vaddr>> \in DOMAIN cache

(* Variant: the whole image path instead of its base name. *)
SynthesizedFullPath(fr) ==
  Str(fr.file) \o "[+" \o (IF fr.hv THEN fr.vaddr ELSE "None") \o "]"

Synthesized(fr) ==
  Str(Basename(fr.file)) \o "[+" \o (IF fr.hv THEN fr.vaddr ELSE "None") \o "]"

Fallback(fr) ==
  LET sym == IF fr.hs THEN fr.symbol ELSE "unknown"
  IN IF sym = "unknown" /\ fr.hf /\ fr.file # <<>> THEN Synthesized(fr) ELSE sym

FrameLabel(cache, fr) ==
  IF InCache(cache, fr) THEN cache[<<fr.file, fr.vaddr>>] ELSE Fallback(fr)

StackSyms(cache, smp) ==
  [i \in 1..Len(smp.stack) |-> FrameLabel(cache, smp.stack[i])]

V2FoldSample(fd, cache, smp) ==
  IF StackSyms(cache, smp) = <<>> THEN fd
  ELSE Accumulate(fd, JoinSemi(StackSyms(cache, smp)), smp.count)

RECURSIVE V2Fold(_, _, _)
V2Fold(fd, cache, smps) ==
  IF smps = <<>> THEN fd
  ELSE V2Fold(V2FoldSample(fd, cache, smps[1]), cache, Tail(smps))

(* sorted(folded.items(), key=lambda x: x[1], reverse=True): a stable sort, *)
(* so equal counts keep the dict's insertion order.                         *)
(* Variant: an entry goes before the entries of equal count. *)
RECURSIVE InsertDescStrict(_, _)
InsertDescStrict(sorted, e) ==
  IF sorted = <<>> THEN <<e>>
  ELSE IF sorted[1].count > e.count
    THEN <<sorted[1]>> \o InsertDescStrict(Tail(sorted), e)
  ELSE <<e>> \o sorted

RECURSIVE InsertDesc(_, _)
InsertDesc(sorted, e) ==
  IF sorted = <<>> THEN <<e>>
  ELSE IF sorted[1].count >= e.count
    THEN <<sorted[1]>> \o InsertDesc(Tail(sorted), e)
  ELSE <<e>> \o sorted

RECURSIVE SortDesc(_)
SortDesc(fd) ==
  IF fd = <<>> THEN <<>>
  ELSE InsertDesc(SortDesc(SubSeq(fd, 1, Len(fd) - 1)), fd[Len(fd)])

(* print(f"{stack} {count}"): out keeps the pair next to the printed text. *)
FormatLine(e) == e.stack \o " " \o ToString(e.count)

EmitLines(fd) ==
  [i \in 1..Len(fd) |->
     [stack |-> SortDesc(fd)[i].stack, count |-> SortDesc(fd)[i].count,
      text |-> FormatLine(SortDesc(fd)[i])]]

(***************************************************************************)
(* resolve_and_fold.py: resolve_symbols.                                   *)
(* store is the list of files under SYMBOLS_DIR (paths relative to it) in  *)
(* os.walk order; symbolizer gives, for each of them, what running         *)
(* llvm-symbolizer on it does: fail to run (Popen raises), or print stdout  *)
(* (a sequence of lines) and exit with status rc.  to_resolve is the       *)
(* defaultdict(set) in insertion order.                                    *)
(***************************************************************************)
Range(seq) == {seq[i] : i \in 1..Len(seq)}

RECURSIVE Flatten(_)
Flatten(ss) == IF ss = <<>> THEN <<>> ELSE ss[1] \o Flatten(Tail(ss))

AllFrames(smps) == Flatten([i \in 1..Len(smps) |-> smps[i].stack])

Resolvable(fr) ==
  /\ fr.hf /\ fr.file # <<>>
  /\ fr.hv /\ fr.vaddr # ""
  /\ StartsWithSlash(fr.file)
  /\ ContainsLib(fr.file)

(* Variant: a later address of an image replaces the earlier ones. *)
AddAddressReplace(tr, fr) ==
  IF ~Resolvable(fr) THEN tr
  ELSE IF \E i \in 1..Len(tr) : tr[i].file = fr.file
    THEN [i \in 1..Len(tr) |->
            IF tr[i].file = fr.file
              THEN [tr[i] EXCEPT !.vaddrs = {fr.vaddr}]
              ELSE tr[i]]
  ELSE Append(tr, [file |-> fr.file, vaddrs |-> {fr.vaddr}])

AddAddress(tr, fr) ==
  IF ~Resolvable(fr) THEN tr
  ELSE IF \E i \in 1..Len(tr) : tr[i].file = fr.file
    THEN [i \in 1..Len(tr) |->
            IF tr[i].file = fr.file
              THEN [tr[i] EXCEPT !.vaddrs = @ \cup {fr.vaddr}]
              ELSE tr[i]]
  ELSE Append(tr, [file |-> fr.file, vaddrs |-> {fr.vaddr}])

RECURSIVE CollectFrames(_, _)
CollectFrames(tr, frames) ==
  IF frames = <<>> THEN tr
  ELSE CollectFrames(AddAddress(tr, frames[1]), Tail(frames))

CollectAddresses(smps) == CollectFrames(<<>>, AllFrames(smps))

(* Python's str order on the addresses the inputs use. *)
VaddrOrder == <<"10", "1a2b", "20">>

InSet(v, S) == v \in S

SortedVaddrs(S) == SelectSeq(VaddrOrder, LAMBDA v : InSet(v, S))

RelPath(file_path) ==
  IF StartsWithSlash(file_path) THEN Tail(file_path) ELSE file_path

Candidates(st, file_path) ==
  SelectSeq(st, LAMBDA p : Basename(p) = Basename(file_path))

Found(st, file_path) ==
  RelPath(file_path) \in Range(st) \/ Candidates(st, file_path) # <<>>

(* Variant: the search result is used even when the joined path exists. *)
LocalPathSearchFirst(st, file_path) == Candidates(st, file_path)[1]

LocalPath(st, file_path) ==
  IF RelPath(file_path) \in Range(st)
    THEN RelPath(file_path)
    ELSE Candidates(st, file_path)[1]

(* stdout.strip().split('\n') *)
RECURSIVE DropLeadingBlank(_)
DropLeadingBlank(ls) ==
  IF ls # <<>> /\ ls[1] = "" THEN DropLeadingBlank(Tail(ls)) ELSE ls

StripSplit(stdout) ==
  LET t == Reverse(DropLeadingBlank(Reverse(DropLeadingBlank(stdout))))
  IN IF t = <<>> THEN <<"">> ELSE t

(* Variant: one line per address is taken to be enough. *)
LengthCheckLoose(lines, vaddr_list) == Len(lines) >= Len(vaddr_list)

LengthCheck(lines, vaddr_list) == Len(lines) >= Len(vaddr_list) * 2

(* Variant: the name of the i-th address is read at line i, not 2*i. *)
RECURSIVE CacheBatchDense(_, _, _, _, _)
CacheBatchDense(cache, file_path, vaddr_list, lines, i) ==
  IF i > Len(vaddr_list) THEN cache
  ELSE IF i > Len(lines) THEN cache
  ELSE LET func_name == lines[i]
           key == <<file_path, vaddr_list[i]>>
           next == IF func_name # "??"
                     THEN [k \in DOMAIN cache \cup {key} |->
                             IF k = key THEN func_name ELSE cache[k]]
                     ELSE cache
       IN CacheBatchDense(next, file_path, vaddr_list, lines, i + 1)

(* lines[i*2] beyond the end raises IndexError, which the except clause of *)
(* line 221 catches: the entries already written stay.                    *)
RECURSIVE CacheBatch(_, _, _, _, _)
CacheBatch(cache, file_path, vaddr_list, lines, i) ==
  IF i > Len(vaddr_list) THEN cache
  ELSE IF 2 * (i - 1) + 1 > Len(lines) THEN cache
  ELSE LET func_name == lines[2 * (i - 1) + 1]
           key == <<file_path, vaddr_list[i]>>
           next == IF func_name # "??"
                     THEN [k \in DOMAIN cache \cup {key} |->
                             IF k = key THEN func_name ELSE cache[k]]
                     ELSE cache
       IN CacheBatch(next, file_path, vaddr_list, lines, i + 1)

Symbolize(cache, file_path, vaddr_list, resp) ==
  IF resp.fails THEN cache
  ELSE IF LengthCheck(StripSplit(resp.stdout), vaddr_list)
    THEN CacheBatch(cache, file_path, vaddr_list, StripSplit(resp.stdout), 1)
  ELSE cache

(* Variant: the cache is emptied at the start of every image. *)
ResolveImageFresh(cache, st, sym, e) ==
  IF ~Found(st, e.file) THEN <<>>
  ELSE Symbolize(<<>>, e.file, SortedVaddrs(e.vaddrs), sym[LocalPath(st, e.file)])

ResolveImage(cache, st, sym, e) ==
  IF ~Found(st, e.file) THEN cache
  ELSE Symbolize(cache, e.file, SortedVaddrs(e.vaddrs), sym[LocalPath(st, e.file)])

RECURSIVE ResolveLoop(_, _, _, _)
ResolveLoop(cache, st, sym, tr) ==
  IF tr = <<>> THEN cache
  ELSE ResolveLoop(ResolveImage(cache, st, sym, tr[1]), st, sym, Tail(tr))

resolve_symbols(smps, st, sym) == ResolveLoop(<<>>, st, sym, CollectAddresses(smps))

(* main of resolve_and_fold.py as a function of the input and the environment. *)
V2Main(lines, st, sym) ==
  LET smps == parse_simpleperf_output_v2(lines)
  IN V2Fold(<<>>, resolve_symbols(smps, st, sym), smps)

(***************************************************************************)
(* Inputs and environments.                                                *)
(***************************************************************************)
LibFooRel == Tail(LibFoo)

AltFoo == <<"x", "/", "l", "i", "b", "f", "o", "o", ".", "s", "o">>

Alt2Foo == <<"y", "/", "l", "i", "b", "f", "o", "o", ".", "s", "o">>

LibBarRel == Tail(LibBar)

Answer(stdout) == [fails |-> FALSE, rc |-> 0, stdout |-> stdout]

Crashed(stdout) == [fails |-> FALSE, rc |-> 1, stdout |-> stdout]

Failure == [fails |-> TRUE, rc |-> 1, stdout |-> <<>>]

Env(st, resp) == [store |-> st, symbolizer |-> [p \in Range(st) |-> resp]]

EnvEmpty == Env(<<>>, Failure)

EnvFull == Env(<<LibFooRel>>, Answer(<<"f", "x.c:1">>))

SeqsUpTo(S, n) == UNION {[1..k -> S] : k \in 0..n}

Alphabet ==
  {LSample, LSampleInd, LCount(2), LCountBad, LThread("t"), LChain,
   LVaddr("1a2b"), LFile(LibFoo), LSym("A"), LSym("")}

LineInputs == SeqsUpTo(Alphabet, MaxLines)

FrameLines(v, p, s) == <<LVaddr(v), LFile(p), LSym(s)>>

RecBA(w) ==
  <<LSample, LCount(w), LChain>>
    \o FrameLines("10", BinApp, "B") \o FrameLines("20", BinApp, "A")

RecordPool ==
  {RecBA(3), RecBA(2),
   <<LSample, LSym("A")>>,
   <<LSample, LCount(2), LSym("B")>>,
   <<LSample, LCountBad, LSym("A"), LChain>>,
   <<LSample, LCount(3), LChain>>,
   <<LSample, LVaddr("1a2b"), LFile(LibFoo)>>,
   <<LSample, LVaddr("1a2b"), LFile(LibFoo), LSym("unknown")>>,
   <<LSample, LThread("t"), LSym("C"), LChain, LSym("B"), LSym("A")>>}

RecordInputs == {Flatten(rs) : rs \in SeqsUpTo(RecordPool, MaxRecords)}

Tokens == {"f", "??", ""}

Responses == {Failure} \cup {Answer(so) : so \in SeqsUpTo(Tokens, MaxStdout)}

Stores == {<<>>, <<LibFooRel>>, <<AltFoo>>, <<AltFoo, LibFooRel>>}

ResolverEnvs == {Env(st, resp) : st \in Stores, resp \in Responses}

ResolverPool ==
  {<<LSample, LThread("t"), LVaddr("1a2b"), LFile(LibFoo)>>,
   <<LSample, LCount(2), LVaddr("10"), LFile(LibFoo), LSym("A"), LChain,
     LVaddr("1a2b"), LFile(LibFoo), LSym("B")>>,
   <<LSample, LVaddr("20"), LFile(BinApp), LSym("B")>>}

ResolverInputs == {Flatten(rs) : rs \in SeqsUpTo(ResolverPool, MaxResolverRecords)}

ImageStores ==
  {<<>>, <<LibFooRel>>, <<LibBarRel>>, <<LibFooRel, LibBarRel>>,
   <<AltFoo, LibFooRel>>, <<AltFoo, Alt2Foo>>, <<Alt2Foo, AltFoo, LibBarRel>>}

ImageResponses ==
  {Failure, Crashed(<<"f", "x.c:1">>),
   Answer(<<"g", "x.c:1", "h", "x.c:2">>), Answer(<<"g", "x.c:1", "??", "??:0">>)}

ImageEnvs ==
  UNION {{[store |-> st, symbolizer |-> sym] :
            sym \in [Range(st) -> ImageResponses]} : st \in ImageStores}

ImagePool ==
  {<<LSample, LCount(2), LVaddr("1a2b"), LFile(LibFoo), LSym("A"), LChain,
     LVaddr("10"), LFile(LibBar), LSym("B")>>,
   <<LSample, LThread("t"), LVaddr("10"), LFile(LibFoo)>>,
   <<LSample, LVaddr("20"), LFile(LibBar), LSym("B")>>,
   <<LSample, LVaddr("1a2b"), LFile(BinApp), LSym("C"), LChain,
     LFile(LibFoo), LSym("A")>>}

ImageInputs == {Flatten(rs) : rs \in SeqsUpTo(ImagePool, MaxImageRecords)}

(***************************************************************************)
(* The state machine.  pc is the stage of main: parse, collect, resolve,   *)
(* fold, done; raised when an exception left main.                         *)
(***************************************************************************)
InitWith(Inputs, Envs) ==
  /\ prog \in {"v2", "convert"}
  /\ input \in Inputs
  /\ \E e \in (IF prog = "v2" THEN Envs ELSE {EnvEmpty}) :
       store = e.store /\ symbolizer = e.symbolizer
  /\ pos = 1
  /\ pc = "parse"
  /\ v2 = V2Start
  /\ cv = CvStart
  /\ to_resolve = <<>>
  /\ ri = 1
  /\ resolved_cache = <<>>
  /\ invocations = <<>>
  /\ fi = 1
  /\ folded = <<>>
  /\ out = <<>>

Rest == <<prog, input, store, symbolizer>>

Resolution == <<to_resolve, ri, resolved_cache, invocations>>

Folding == <<fi, folded, out>>

V2Reads(kind) ==
  /\ prog = "v2" /\ pc = "parse"
  /\ pos <= Len(input) /\ V2Kind(input[pos]) = kind
  /\ pos' = pos + 1
  /\ UNCHANGED <<Rest, pc, cv, Resolution, Folding>>

V2_Sample == V2Reads("sample") /\ v2' = V2OnSample(v2)

V2_EventCount == V2Reads("event_count") /\ v2' = V2OnEventCount(v2, input[pos])

V2_Callchain == V2Reads("callchain") /\ v2' = V2OnCallchain(v2)

V2_Vaddr == V2Reads("vaddr_in_file") /\ v2' = V2OnVaddr(v2, input[pos])

V2_File == V2Reads("file") /\ v2' = V2OnFile(v2, input[pos])

V2_Symbol == V2Reads("symbol") /\ v2' = V2OnSymbol(v2, input[pos])

V2_Ignore == V2Reads("other") /\ v2' = v2

V2_Eof ==
  /\ prog = "v2" /\ pc = "parse" /\ pos > Len(input)
  /\ v2' = V2OnEof(v2)
  /\ pc' = "collect"
  /\ UNCHANGED <<Rest, pos, cv, Resolution, Folding>>

V2_Collect ==
  /\ prog = "v2" /\ pc = "collect"
  /\ to_resolve' = CollectAddresses(v2.samples)
  /\ pc' = "resolve"
  /\ UNCHANGED <<Rest, pos, v2, cv, ri, resolved_cache, invocations, Folding>>

V2_ResolveSkip ==
  /\ prog = "v2" /\ pc = "resolve" /\ ri <= Len(to_resolve)
  /\ ~Found(store, to_resolve[ri].file)
  /\ ri' = ri + 1
  /\ UNCHANGED <<Rest, pos, pc, v2, cv, to_resolve, resolved_cache, invocations,
                 Folding>>

V2_ResolveInvoke ==
  /\ prog = "v2" /\ pc = "resolve" /\ ri <= Len(to_resolve)
  /\ Found(store, to_resolve[ri].file)
  /\ LET file_path == to_resolve[ri].file
         local_path == LocalPath(store, file_path)
         vaddr_list == SortedVaddrs(to_resolve[ri].vaddrs)
         resp == symbolizer[local_path]
     IN /\ resolved_cache' = ResolveImage(resolved_cache, store, symbolizer,
                                          to_resolve[ri])
        /\ invocations' = Append(invocations,
                                 [file |-> file_path, local_path |-> local_path,
                                  vaddr_list |-> vaddr_list, resp |-> resp])
  /\ ri' = ri + 1
  /\ UNCHANGED <<Rest, pos, pc, v2, cv, to_resolve, Folding>>

V2_ResolveReturn ==
  /\ prog = "v2" /\ pc = "resolve" /\ ri > Len(to_resolve)
  /\ pc' = "fold"
  /\ UNCHANGED <<Rest, pos, v2, cv, Resolution, Folding>>

V2_FoldSample ==
  /\ prog = "v2" /\ pc = "fold" /\ fi <= Len(v2.samples)
  /\ folded' = V2FoldSample(folded, resolved_cache, v2.samples[fi])
  /\ fi' = fi + 1
  /\ UNCHANGED <<Rest, pos, pc, v2, cv, Resolution, out>>

V2_Emit ==
  /\ prog = "v2" /\ pc = "fold" /\ fi > Len(v2.samples)
  /\ out' = EmitLines(folded)
  /\ pc' = "done"
  /\ UNCHANGED <<Rest, pos, v2, cv, Resolution, fi, folded>>

CvReads(kind) ==
  /\ prog = "convert" /\ pc = "parse"
  /\ pos <= Len(input) /\ CvKind(input[pos]) = kind
  /\ pos' = pos + 1
  /\ UNCHANGED <<Rest, v2, Resolution, Folding>>

CvPc(st) == IF st.raised THEN "raised" ELSE "parse"

Cv_Sample == CvReads("sample") /\ cv' = CvOnSample(cv) /\ pc' = CvPc(cv')

Cv_EventCount ==
  CvReads("event_count") /\ cv' = CvOnEventCount(cv, input[pos]) /\ pc' = CvPc(cv')

Cv_Thread ==
  CvReads("thread_name") /\ cv' = CvOnThread(cv, input[pos]) /\ pc' = CvPc(cv')

Cv_Callchain == CvReads("callchain") /\ cv' = CvOnCallchain(cv) /\ pc' = CvPc(cv')

Cv_Symbol == CvReads("symbol") /\ cv' = CvOnSymbol(cv, input[pos]) /\ pc' = CvPc(cv')

Cv_Ignore == CvReads("other") /\ cv' = cv /\ pc' = CvPc(cv')

Cv_Eof ==
  /\ prog = "convert" /\ pc = "parse" /\ pos > Len(input)
  /\ cv' = CvOnEof(cv)
  /\ pc' = "fold"
  /\ UNCHANGED <<Rest, pos, v2, Resolution, Folding>>

Cv_FoldSample ==
  /\ prog = "convert" /\ pc = "fold" /\ fi <= Len(cv.samples)
  /\ folded' = CvFoldSample(folded, cv.samples[fi])
  /\ cv' = [cv EXCEPT !.samples[fi].stack = FullStack(cv.samples[fi])]
  /\ fi' = fi + 1
  /\ UNCHANGED <<Rest, pos, pc, v2, Resolution, out>>

Cv_Emit ==
  /\ prog = "convert" /\ pc = "fold" /\ fi > Len(cv.samples)
  /\ out' = EmitLines(folded)
  /\ pc' = "done"
  /\ UNCHANGED <<Rest, pos, v2, cv, Resolution, fi, folded>>

Next ==
  \/ V2_Sample \/ V2_EventCount \/ V2_Callchain \/ V2_Vaddr \/ V2_File
  \/ V2_Symbol \/ V2_Ignore \/ V2_Eof
  \/ V2_Collect \/ V2_ResolveSkip \/ V2_ResolveInvoke \/ V2_ResolveReturn
  \/ V2_FoldSample \/ V2_Emit
  \/ Cv_Sample \/ Cv_EventCount \/ Cv_Thread \/ Cv_Callchain \/ Cv_Symbol
  \/ Cv_Ignore \/ Cv_Eof \/ Cv_FoldSample \/ Cv_Emit

(* Every sequence of at most MaxLines lines. *)
Spec == InitWith(LineInputs, {EnvEmpty, EnvFull}) /\ [][Next]_vars

(* Every sequence of at most MaxRecords records. *)
SpecRec == InitWith(RecordInputs, {EnvEmpty, EnvFull}) /\ [][Next]_vars

(* Records with library images, under every symbol store and every resolver *)
(* answer of at most MaxStdout lines.                                       *)
SpecRes == InitWith(ResolverInputs, ResolverEnvs) /\ [][Next]_vars

(* Records over two library images, under symbol stores with direct and     *)
(* substitute files and a resolver answer per file.                         *)
SpecImg == InitWith(ImageInputs, ImageEnvs) /\ [][Next]_vars

(***************************************************************************)
(* Vocabulary of the properties.                                           *)
(***************************************************************************)
Samples == IF prog = "v2" THEN v2.samples ELSE cv.samples

SampleCount(i) ==
  IF prog = "v2" THEN v2.samples[i].count ELSE CvCount(cv.samples[i])

KeyOfSample(i) ==
  IF prog = "v2"
    THEN JoinSemi(StackSyms(resolved_cache, v2.samples[i]))
    ELSE JoinSemi(FullStack(cv.samples[i]))

RECURSIVE TotalOf(_)
TotalOf(es) == IF es = <<>> THEN 0 ELSE es[1].count + TotalOf(Tail(es))

WeightOfSamples(k) ==
  TotalOf([i \in 1..k |->
             [count |-> IF Samples[i].stack # <<>> THEN SampleCount(i) ELSE 0]])

AsMapping(fd) == {<<fd[i].stack, fd[i].count>> : i \in 1..Len(fd)}

IsStart(l) == l.k = "sample" /\ ~l.ind

NextStart(ls) ==
  IF \E j \in 2..Len(ls) : IsStart(ls[j])
    THEN CHOOSE j \in 2..Len(ls) :
           IsStart(ls[j]) /\ \A h \in 2..(j - 1) : ~IsStart(ls[h])
    ELSE Len(ls) + 1

RECURSIVE RecordsOf(_)
RecordsOf(ls) ==
  IF ls = <<>> THEN <<>>
  ELSE <<SubSeq(ls, 1, NextStart(ls) - 1)>>
         \o RecordsOf(SubSeq(ls, NextStart(ls), Len(ls)))

RecordOrders(n) ==
  {p \in [1..n -> 1..n] : \A i, j \in 1..n : i # j => p[i] # p[j]}

Weighs(l) == l.k = "event_count" /\ l.m

NoWeight(ls) == \A i \in 1..Len(ls) : ~Weighs(ls[i])

(* The lines read so far of the record being parsed. *)
LastStart ==
  IF \E j \in 1..(pos - 1) : IsStart(input[j])
    THEN CHOOSE j \in 1..(pos - 1) :
           IsStart(input[j]) /\ \A h \in (j + 1)..(pos - 1) : ~IsStart(input[h])
    ELSE 0

CurrentRecord == SubSeq(input, LastStart + 1, pos - 1)

FirstChain(r) ==
  IF \E j \in 1..Len(r) : r[j].k = "callchain"
    THEN CHOOSE j \in 1..Len(r) :
           r[j].k = "callchain" /\ \A h \in 1..(j - 1) : r[h].k # "callchain"
    ELSE Len(r) + 1

TopOnly(r) ==
  /\ r # <<>> /\ IsStart(r[1])
  /\ Cardinality({j \in 1..Len(r) : r[j].k = "symbol" /\ r[j].m}) = 1
  /\ Cardinality({j \in 1..Len(r) : r[j].k = "vaddr_in_file"}) <= 1
  /\ \A j \in 1..Len(r) :
       r[j].k \in {"symbol", "vaddr_in_file", "file"} => j < FirstChain(r)

TopSymbol(r) == r[CHOOSE j \in 1..Len(r) : r[j].k = "symbol" /\ r[j].m].s

FrameLine(l) == l.k \in {"vaddr_in_file", "file", "symbol"}

Submitted(file_path) ==
  UNION {to_resolve[k].vaddrs :
           k \in {h \in 1..Len(to_resolve) : to_resolve[h].file = file_path}}

ShortAnswer(inv) ==
  ~inv.resp.fails /\ Len(inv.resp.stdout) < 2 * Cardinality(Submitted(inv.file))

UnresolvedLabel(fr) ==
  IF fr.hs /\ fr.symbol # "unknown"
    THEN fr.symbol
    ELSE Str(Basename(fr.file)) \o "[+" \o fr.vaddr \o "]"

LabelUnlessShort(fr) ==
  IF \E k \in 1..Len(invocations) :
       ShortAnswer(invocations[k]) /\ fr.hf /\ fr.hv /\ invocations[k].file = fr.file
    THEN UnresolvedLabel(fr)
    ELSE FrameLabel(resolved_cache, fr)

AfterLastSlash(p) ==
  CHOOSE b \in {SubSeq(p, k, Len(p)) : k \in 1..(Len(p) + 1)} :
    /\ \A i \in 1..Len(b) : b[i] # "/"
    /\ Len(b) = Len(p) \/ p[Len(p) - Len(b)] = "/"

Bare(fr) ==
  /\ fr.hf /\ fr.file # <<>> /\ fr.hv /\ ~fr.hs
  /\ ~InCache(resolved_cache, fr)

FirstSeen(key) ==
  CHOOSE i \in 1..Len(Samples) :
    KeyOfSample(i) = key /\ \A j \in 1..(i - 1) : KeyOfSample(j) # key

(***************************************************************************)
(* C1: conservation of weight.  While folding and after it, the counts of  *)
(* the folded entries add up to the counts of the samples folded so far    *)
(* that have at least one frame; the emitted lines carry the same total.   *)
(***************************************************************************)
C1_ConservationOfWeight ==
  /\ pc \in {"fold", "done"} =>
       TotalOf(folded) = WeightOfSamples(fi - 1)
  /\ pc = "done" =>
       /\ fi - 1 = Len(Samples)
       /\ TotalOf(out) = WeightOfSamples(Len(Samples))

C1_Witness ==
  /\ pc = "done"
  /\ Len(out) >= 2
  /\ Len(out) < Len(Samples)
  /\ TotalOf(out) >= 4

(***************************************************************************)
(* C2: two records with the same callchain [B, A] (leaf first, each frame  *)
(* an address, an image and a symbol line) and weights w1, w2 give exactly *)
(* one line, A;B with count w1 + w2; for weights 3 and 2 the line is       *)
(* "A;B 5".                                                                *)
(***************************************************************************)
C2_IdenticalStacksMerge ==
  (prog = "v2" /\ pc = "done") =>
    \A w1, w2 \in {2, 3} :
      input = RecBA(w1) \o RecBA(w2) =>
        /\ Len(out) = 1
        /\ out[1].stack = "A;B"
        /\ out[1].count = w1 + w2
        /\ (w1 = 3 /\ w2 = 2) => out[1].text = "A;B 5"

(***************************************************************************)
(* C3: folding is order-independent.  Running the program on any           *)
(* permutation of the input's records gives the same mapping from folded   *)
(* stack to count.                                                         *)
(***************************************************************************)
C3_OrderIndependent ==
  (prog = "v2" /\ pc = "done") =>
    LET recs == RecordsOf(input)
    IN \A p \in RecordOrders(Len(recs)) :
         AsMapping(V2Main(Flatten([i \in 1..Len(recs) |-> recs[p[i]]]),
                          store, symbolizer))
           = AsMapping(folded)

(***************************************************************************)
(* C4: a record with a top-level symbol line and no callchain frames, at   *)
(* any position, yields a one-frame sample, and its folded key is that     *)
(* symbol unless the frame has a resolved name.                            *)
(***************************************************************************)
C4_EmptyCallchainFallback ==
  pc = "done" =>
    \A i \in 1..Len(RecordsOf(input)) :
      LET r == RecordsOf(input)[i]
      IN TopOnly(r) =>
           IF prog = "v2"
             THEN \E j \in 1..Len(v2.samples) :
                    LET st == v2.samples[j].stack
                    IN /\ Len(st) = 1
                       /\ st[1].hs /\ st[1].symbol = TopSymbol(r)
                       /\ ~InCache(resolved_cache, st[1]) =>
                            HasKey(folded, TopSymbol(r))
             ELSE /\ \E j \in 1..Len(cv.samples) :
                       cv.samples[j].stack = <<TopSymbol(r)>>
                  /\ HasKey(folded, TopSymbol(r))

(***************************************************************************)
(* C5: a record without frames gives no sample and no output line: every   *)
(* parsed sample has a non-empty stack, an input without address, image    *)
(* and symbol lines gives no output, and no folded key or output line has  *)
(* an empty stack part.                                                    *)
(***************************************************************************)
C5_NoEmptyEntry ==
  /\ pc \in {"fold", "done"} =>
       \A i \in 1..Len(Samples) : Samples[i].stack # <<>>
  /\ (pc = "done" /\ \A i \in 1..Len(input) : ~FrameLine(input[i])) =>
       (Samples = <<>> /\ out = <<>>)
  /\ \A i \in 1..Len(folded) : folded[i].stack # ""
  /\ \A i \in 1..Len(out) : out[i].stack # ""

(***************************************************************************)
(* C6: fail-closed batch resolution.  When the resolver's answer for an    *)
(* image has fewer lines than twice the number of distinct addresses       *)
(* submitted for it, the cache gets no entry for that image, and every     *)
(* frame of that image is rendered by its symbol or the synthesized label. *)
(***************************************************************************)
C6_FailClosed ==
  /\ \A k \in 1..Len(invocations) :
       ShortAnswer(invocations[k]) =>
         \A key \in DOMAIN resolved_cache : key[1] # invocations[k].file
  /\ (prog = "v2" /\ pc = "done") =>
       \A i \in 1..Len(v2.samples) :
         HasKey(folded,
                JoinSemi([j \in 1..Len(v2.samples[i].stack) |->
                            LabelUnlessShort(v2.samples[i].stack[j])]))

C6_Witness ==
  /\ pc = "done"
  /\ \E k \in 1..Len(invocations) :
       /\ ShortAnswer(invocations[k])
       /\ Len(invocations[k].vaddr_list) = 2
       /\ Len(invocations[k].resp.stdout) = 3
       /\ invocations[k].resp.stdout[1] = "f"
       /\ invocations[k].resp.stdout[3] = "f"
  /\ HasKey(folded, "libfoo.so[+1a2b]")

C8_SynthesizedLabel ==
  (prog = "v2" /\ pc = "done") =>
    \A i \in 1..Len(v2.samples) :
      LET st == v2.samples[i].stack
      IN (\A j \in 1..Len(st) : Bare(st[j])) =>
           /\ HasKey(folded,
                     JoinSemi([j \in 1..Len(st) |->
                                 Str(AfterLastSlash(st[j].file)) \o "[+"
                                   \o st[j].vaddr \o "]"]))
           /\ (Len(st) = 1 /\ st[1].file = LibFoo /\ st[1].vaddr = "1a2b") =>
                HasKey(folded, "libfoo.so[+1a2b]")

C8_Witness ==
  /\ prog = "v2" /\ pc = "done"
  /\ Len(v2.samples) = 1
  /\ Bare(v2.samples[1].stack[1])
  /\ Len(out) = 1 /\ out[1].text = "libfoo.so[+1a2b] 1"

(***************************************************************************)
(* C9: emission order.  The output holds the folded entries by descending  *)
(* count; entries with equal counts are in the order in which their keys   *)
(* were first produced by a sample.                                        *)
(***************************************************************************)
C9_EmissionOrder ==
  pc = "done" =>
    /\ Len(out) = Len(folded)
    /\ AsMapping(out) = AsMapping(folded)
    /\ \A i, j \in 1..Len(out) :
         i < j =>
           /\ out[i].count >= out[j].count
           /\ out[i].count = out[j].count =>
                FirstSeen(out[i].stack) < FirstSeen(out[j].stack)

C9_Witness ==
  /\ pc = "done"
  /\ Len(out) >= 3
  /\ out[1].count > out[2].count
  /\ out[2].count = out[3].count
  /\ out[1].stack = folded[3].stack

(***************************************************************************)
(* C10: parse anomalies are never fatal.  Whatever the lines and their     *)
(* order, field lines before the first record start included, the parser   *)
(* does not raise and the run reaches its end.                             *)
(***************************************************************************)
C10_ParseNeverFatal == pc # "raised"

(***************************************************************************)
(* Vocabulary of the properties of resolution, parsing and labels.         *)
(***************************************************************************)
Unindented(ls) ==
  [i \in 1..Len(ls) |->
     IF ls[i].k = "sample" THEN [ls[i] EXCEPT !.ind = FALSE] ELSE ls[i]]

Named(fr) == InCache(resolved_cache, fr) \/ fr.hs

NameOf(fr) ==
  IF InCache(resolved_cache, fr)
    THEN resolved_cache[<<fr.file, fr.vaddr>>]
    ELSE fr.symbol

HasFrame(image, address) ==
  \E i \in 1..Len(v2.samples) :
    \E j \in 1..Len(v2.samples[i].stack) :
      LET fr == v2.samples[i].stack[j]
      IN fr.hf /\ fr.file = image /\ fr.hv /\ fr.vaddr = address

LibraryLike(p) ==
  /\ p # <<>> /\ Head(p) = "/"
  /\ \E i \in 1..(Len(p) - 2) : SubSeq(p, i, i + 2) = <<"l", "i", "b">>

(* The lines read from an answer: stdout without the blank lines at its ends. *)
AnswerLines(inv) == StripSplit(inv.resp.stdout)

InStore(p) == \E i \in 1..Len(store) : store[i] = p

SameBaseName(image) ==
  {i \in 1..Len(store) : AfterLastSlash(store[i]) = AfterLastSlash(image)}

FirstOf(S) == CHOOSE i \in S : \A j \in S : i <= j

AddressesOf(image) ==
  {a \in Range(VaddrOrder) : HasFrame(image, a)}

StageSteps ==
  {<<"parse", "collect">>, <<"collect", "resolve">>, <<"resolve", "fold">>,
   <<"fold", "done">>}

StepAlone(k) == ResolveImage(<<>>, store, symbolizer, to_resolve[k])

CacheInOrder(p) ==
  ResolveLoop(<<>>, store, symbolizer,
              [i \in 1..Len(to_resolve) |-> to_resolve[p[i]]])

TopSymbolLines(r) ==
  {j \in 1..Len(r) : r[j].k = "symbol" /\ r[j].m /\ j < FirstChain(r)}

ResolverFailed(inv) == inv.resp.fails \/ inv.resp.rc # 0

(***************************************************************************)
(* C11: resolver failure is contained per image.  When the invocation for  *)
(* an image failed (the resolver could not be started, or it ended with a  *)
(* non-zero status), the cache has no entry for that image; the loop still *)
(* goes through all the images, and the run does not end in an exception.  *)
(***************************************************************************)
C11_FailureContained ==
  /\ \A k \in 1..Len(invocations) :
       ResolverFailed(invocations[k]) =>
         \A key \in DOMAIN resolved_cache : key[1] # invocations[k].file
  /\ (prog = "v2" /\ pc \in {"fold", "done"}) => ri = Len(to_resolve) + 1
  /\ prog = "v2" => pc # "raised"

(***************************************************************************)
(* C12: end-of-stream finalization equals marker finalization.  After any  *)
(* lines of a record, the samples that parse_simpleperf_output_v2 has when *)
(* the stream ends there are the samples it has when a record-start line   *)
(* follows there: same count, same frames in the same order.               *)
(***************************************************************************)
C12_EofEqualsMarker ==
  (prog = "v2" /\ pc = "parse" /\ LastStart > 0) =>
    V2OnEof(v2).samples = V2OnSample(v2).samples

(***************************************************************************)
(* C13: the record-start marker is matched after trimming leading          *)
(* whitespace.  In both parsers an input gives the samples (and raises or  *)
(* not) exactly as the same input with every indented record-start line    *)
(* replaced by an unindented one.                                          *)
(***************************************************************************)
C13_IndentedMarker ==
  /\ (prog = "v2" /\ pc = "collect") =>
       v2.samples = parse_simpleperf_output_v2(Unindented(input))
  /\ (prog = "convert" /\ pc = "fold" /\ fi = 1) =>
       /\ ~parse_simpleperf_output(Unindented(input)).raised
       /\ cv.samples = parse_simpleperf_output(Unindented(input)).samples
  /\ (prog = "convert" /\ pc = "raised") =>
       parse_simpleperf_output(Unindented(input)).raised

(***************************************************************************)
(* C14: label priority in the fold loop of resolve_and_fold.main.  A frame *)
(* whose (image, address) is in the cache is rendered as the cached name;  *)
(* otherwise a frame with a recorded symbol is rendered as exactly that    *)
(* symbol, whatever its text and whether or not it has an image.  So a     *)
(* sample whose frames all have a cached name or a symbol is folded under  *)
(* the key made of those names, and never under a synthesized label.       *)
(***************************************************************************)
C14_LabelPriority ==
  (prog = "v2" /\ pc = "done") =>
    \A i \in 1..Len(v2.samples) :
      LET st == v2.samples[i].stack
      IN (\A j \in 1..Len(st) : Named(st[j])) =>
           HasKey(folded, JoinSemi([j \in 1..Len(st) |-> NameOf(st[j])]))

(***************************************************************************)
(* C15: every frame renders to a non-empty label.  For every frame of      *)
(* every parsed sample, the label the fold loop of resolve_and_fold.main   *)
(* appends under the cache of the run is not the empty string, and no      *)
(* folded key is the empty string.                                         *)
(***************************************************************************)
C15_NonEmptyLabels ==
  (prog = "v2" /\ pc \in {"fold", "done"}) =>
    /\ \A i \in 1..Len(v2.samples) :
         \A j \in 1..Len(v2.samples[i].stack) :
           FrameLabel(resolved_cache, v2.samples[i].stack[j]) # ""
    /\ \A i \in 1..Len(folded) : folded[i].stack # ""

(***************************************************************************)
(* C16: resolution cache soundness.  At every point, each cache entry      *)
(* (image, address) -> name is such that some parsed frame has that image  *)
(* and that address, the image is an absolute library-like path, the name  *)
(* is the line at position 2*i (from 0) of the lines read from that        *)
(* image's answer, i being the index of the address in the submitted       *)
(* batch, and the name is not "??".  Every submitted address and every     *)
(* invocation comes from a frame that has an image passing the filter and  *)
(* an address.                                                             *)
(***************************************************************************)
C16_CacheSoundness ==
  /\ \A key \in DOMAIN resolved_cache :
       /\ HasFrame(key[1], key[2])
       /\ LibraryLike(key[1])
       /\ resolved_cache[key] # "??"
       /\ \E k \in 1..Len(invocations) :
            /\ invocations[k].file = key[1]
            /\ \E i \in 1..Len(invocations[k].vaddr_list) :
                 /\ invocations[k].vaddr_list[i] = key[2]
                 /\ 2 * (i - 1) + 1 <= Len(AnswerLines(invocations[k]))
                 /\ resolved_cache[key] = AnswerLines(invocations[k])[2 * (i - 1) + 1]
  /\ \A k \in 1..Len(to_resolve) :
       /\ LibraryLike(to_resolve[k].file)
       /\ \A v \in to_resolve[k].vaddrs : HasFrame(to_resolve[k].file, v)
  /\ \A k \in 1..Len(invocations) :
       /\ LibraryLike(invocations[k].file)
       /\ \A i \in 1..Len(invocations[k].vaddr_list) :
            HasFrame(invocations[k].file, invocations[k].vaddr_list[i])

C16_Witness ==
  /\ pc = "done"
  /\ <<LibFoo, "10">> \in DOMAIN resolved_cache
  /\ <<LibFoo, "1a2b">> \in DOMAIN resolved_cache
  /\ resolved_cache[<<LibFoo, "10">>] = "g"
  /\ resolved_cache[<<LibFoo, "1a2b">>] = "h"
  /\ Len(to_resolve) = 2

(***************************************************************************)
(* C17: image location policy.  The resolver is run on the file at the     *)
(* image's path without its leading separator, under the symbol root, when *)
(* that file exists, whatever other files have the same base name;         *)
(* otherwise on the first file in traversal order whose base name is the   *)
(* image's base name.  An image with neither has no invocation and no      *)
(* cache entry, every image with one of them is invoked, and the loop goes *)
(* on to the end of the images.                                            *)
(***************************************************************************)
C17_ImageLocation ==
  /\ \A k \in 1..Len(invocations) :
       LET inv == invocations[k]
       IN IF InStore(Tail(inv.file))
            THEN inv.local_path = Tail(inv.file)
            ELSE /\ SameBaseName(inv.file) # {}
                 /\ inv.local_path = store[FirstOf(SameBaseName(inv.file))]
  /\ \A k \in 1..Len(to_resolve) :
       k < ri =>
         IF InStore(Tail(to_resolve[k].file)) \/ SameBaseName(to_resolve[k].file) # {}
           THEN \E h \in 1..Len(invocations) :
                  invocations[h].file = to_resolve[k].file
           ELSE /\ \A h \in 1..Len(invocations) :
                     invocations[h].file # to_resolve[k].file
                /\ \A key \in DOMAIN resolved_cache : key[1] # to_resolve[k].file
  /\ (prog = "v2" /\ pc \in {"fold", "done"}) => ri = Len(to_resolve) + 1

C17_Witness ==
  /\ pc = "done"
  /\ store = <<AltFoo, LibFooRel>>
  /\ Len(to_resolve) = 2
  /\ Len(invocations) = 1
  /\ invocations[1].local_path = LibFooRel
  /\ to_resolve[1].file = LibBar
  /\ DOMAIN resolved_cache # {}

(***************************************************************************)
(* C18: stage ordering of one run of resolve_and_fold.main.  Nothing is    *)
(* collected, resolved, folded or emitted while lines are still being      *)
(* parsed; each image has at most one resolver invocation, and it carries  *)
(* every distinct address of the frames of that image, each once; no       *)
(* sample is folded before the loop over the images has ended; once        *)
(* folding has begun the cache and the invocations do not change; no line  *)
(* is emitted before every sample has been folded; and the stages follow   *)
(* one another in the order parse, collect, resolve, fold, done.           *)
(***************************************************************************)
C18_StageOrdering ==
  /\ [](prog = "v2" =>
          /\ pc = "parse" =>
               /\ to_resolve = <<>> /\ invocations = <<>>
               /\ resolved_cache = <<>> /\ folded = <<>> /\ out = <<>>
          /\ pc # "parse" => pos = Len(input) + 1
          /\ \A k, h \in 1..Len(invocations) :
               k # h => invocations[k].file # invocations[h].file
          /\ \A k \in 1..Len(invocations) :
               /\ Range(invocations[k].vaddr_list) = AddressesOf(invocations[k].file)
               /\ Len(invocations[k].vaddr_list)
                    = Cardinality(AddressesOf(invocations[k].file))
          /\ (fi > 1 \/ folded # <<>>) =>
               (pc \in {"fold", "done"} /\ ri = Len(to_resolve) + 1)
          /\ out # <<>> => (pc = "done" /\ fi = Len(v2.samples) + 1))
  /\ [][prog = "v2" =>
          /\ pc \in {"fold", "done"} =>
               (resolved_cache' = resolved_cache /\ invocations' = invocations)
          /\ pc' # pc => <<pc, pc'>> \in StageSteps]_vars

C18_Witness ==
  /\ prog = "v2" /\ pc = "done"
  /\ Len(invocations) = 2
  /\ Len(invocations[1].vaddr_list) = 2
  /\ DOMAIN resolved_cache # {}
  /\ Len(v2.samples) = 2
  /\ out # <<>>

(***************************************************************************)
(* C19: per-image resolution steps are independent.  The step for an image *)
(* keeps every entry the cache has, and adds only entries whose key has    *)
(* that image, namely the entries the step gives when run alone on an      *)
(* empty cache; so running the steps over the images in any order gives    *)
(* the cache of the run, and folding under it gives the folded stacks of   *)
(* the run.                                                                *)
(***************************************************************************)
C19_IndependentSteps ==
  /\ [][(prog = "v2" /\ pc = "resolve" /\ ri <= Len(to_resolve)) =>
          /\ \A key \in DOMAIN resolved_cache :
               /\ key \in DOMAIN resolved_cache'
               /\ resolved_cache'[key] = resolved_cache[key]
          /\ \A key \in DOMAIN resolved_cache' :
               key \notin DOMAIN resolved_cache =>
                 /\ key[1] = to_resolve[ri].file
                 /\ key \in DOMAIN StepAlone(ri)
                 /\ resolved_cache'[key] = StepAlone(ri)[key]
          /\ \A key \in DOMAIN StepAlone(ri) : key \in DOMAIN resolved_cache']_vars
  /\ []((prog = "v2" /\ pc \in {"fold", "done"}) =>
          \A p \in RecordOrders(Len(to_resolve)) :
            /\ CacheInOrder(p) = resolved_cache
            /\ pc = "done" => V2Fold(<<>>, CacheInOrder(p), v2.samples) = folded)

C19_Witness ==
  /\ prog = "v2" /\ pc = "done"
  /\ Len(to_resolve) = 2
  /\ Len(invocations) = 2
  /\ \E a, b \in Range(VaddrOrder) :
       /\ <<LibFoo, a>> \in DOMAIN resolved_cache
       /\ <<LibBar, b>> \in DOMAIN resolved_cache
       /\ resolved_cache[<<LibFoo, a>>] # resolved_cache[<<LibBar, b>>]
  /\ out # <<>>

(***************************************************************************)
(* C20: convert_simpleperf_to_folded only.  While a record is being read,  *)
(* its top-level symbol is the value of the first symbol line read before  *)
(* the callchain marker; after a sample is folded, the last label of its   *)
(* stack is its top-level symbol when it has one, and its key is in the    *)
(* folded stacks; folding the sample list a second time gives the same     *)
(* mapping.                                                                *)
(***************************************************************************)
C20_TopLevelSymbol ==
  prog = "convert" =>
    /\ (pc = "parse" /\ LastStart > 0 /\ TopSymbolLines(CurrentRecord) # {}) =>
         /\ cv.current_sample.hasMain
         /\ cv.current_sample.main_symbol
              = CurrentRecord[FirstOf(TopSymbolLines(CurrentRecord))].s
    /\ pc \in {"fold", "done"} =>
         \A i \in 1..(fi - 1) :
           /\ cv.samples[i].sample.hasMain =>
                cv.samples[i].stack[Len(cv.samples[i].stack)]
                  = cv.samples[i].sample.main_symbol
           /\ HasKey(folded, JoinSemi(cv.samples[i].stack))
    /\ pc = "done" =>
         AsMapping(convert_to_folded(<<>>, cv.samples)) = AsMapping(folded)

====
